---- MODULE Spec2Model ----
(***************************************************************************)
(* A model of spritec's scene query backend (src/query3d/backend/gltf.rs)  *)
(* and of its render layout engine (src/renderer/layout.rs).               *)
(*                                                                         *)
(* Spec        : one open glTF file and the queries made against it.       *)
(* SpecLayout  : one render request tree, converted to a layout tree and   *)
(*               consumed through iter_targets().                          *)
(* SpecWide    : the size of a grid whose dimensions approach the word.    *)
(* SpecOpen    : File::open and load_file on a path.                       *)
(* SpecThreads : threads that query one file behind a mutex.               *)
(* SpecImage   : the preview's ImageBuffer, resized and drawn into.        *)
(***************************************************************************)
EXTENDS Integers, Sequences, FiniteSets, TLC

VARIABLES
    \* ---- GltfFile (gltf.rs:13-24) ----
    scenes,                 \* Vec<Arc<Scene>>, immutable after open()
    default_scene,          \* usize (1-based here)
    scene_shader_geometry,  \* HashMap<usize, Arc<Vec<Arc<ShaderGeometry>>>>
    scene_lights,           \* HashMap<usize, Arc<Vec<Arc<Light>>>>
    scene_first_camera,     \* Option<Arc<Camera>>
    scene_cameras,          \* HashMap<(usize, String), Arc<Camera>>
    allocs,                 \* how many Arc values each query/key has allocated
    result,                 \* the last query and what it returned
    \* ---- layout.rs ----
    request,                \* the RenderNode tree given by the caller
    layout,                 \* Option<LayoutNode>: the tree built by From<RenderNode>
    iter,                   \* Option<LayoutTargetIter>: [node, current]
    yielded,                \* the items next() has returned so far
    phase,                  \* where the caller is: "request", "built", "iterating", "done", "panicked"
    measured,               \* what size() of the built tree returned
    \* ---- backend.rs, loaders.rs ----
    opened,                 \* the last File::open and the last load_file call
    \* ---- the threads of a host that shares one file (native/src/lib.rs) ----
    mutex,                  \* Mutex<File>: None, or Some(thread holding the guard)
    threads,                \* per thread: where it is and what it asks
    returned,               \* per cache key: the Arc identities handed to callers
    \* ---- spritec-preview/src/image_buffer.rs ----
    image,                  \* the ImageBuffer: [data, width, height, scale]
    drawn                   \* what was drawn into it, and the last call on it

backendVars == <<scenes, default_scene, scene_shader_geometry, scene_lights,
                 scene_first_camera, scene_cameras, allocs, result>>
layoutVars == <<request, layout, iter, yielded, phase>>
imageVars == <<image, drawn>>
hostVars == <<measured, opened, mutex, threads, returned, imageVars>>
vars == <<backendVars, layoutVars, hostVars>>

----------------------------------------------------------------------------
(* Option<T>: None is the empty tuple, Some(x) the one-element tuple.      *)
None == <<>>
Some(x) == <<x>>
IsSome(o) == Len(o) = 1
Unwrap(o) == o[1]

----------------------------------------------------------------------------
(* Bounds of the model.                                                    *)
MaxScenes == 2      \* scenes in one file
MaxAllocs == 3      \* Arc allocations counted per cache key

----------------------------------------------------------------------------
(* Transforms.  The code uses 4x4 matrices under multiplication; the model *)
(* uses the 3x3 permutation matrices, written as permutations of 1..3: a   *)
(* non-commutative group, so that the order of a product and an inverse    *)
(* are both visible.                                                       *)
Perms == {<<1,2,3>>, <<1,3,2>>, <<2,1,3>>, <<2,3,1>>, <<3,1,2>>, <<3,2,1>>}
Identity == <<1,2,3>>
MatMul(a, b) == <<a[b[1]], a[b[2]], a[b[3]]>>
Inverted(a) == CHOOSE p \in Perms : MatMul(p, a) = Identity

----------------------------------------------------------------------------
(* The scene graph (crate::scene, read-only input of the backend).         *)
(* Node: optional name, local transform, optional mesh (its geometry       *)
(* pieces), optional camera, optional light, children.                     *)
Node(name, transform, mesh, camera, light, children) ==
    [name |-> name, transform |-> transform, mesh |-> mesh,
     camera |-> camera, light |-> light, children |-> children]
CameraType(name, kind) == [name |-> name, kind |-> kind]
Scene(name, roots) == [name |-> name, roots |-> roots]

\* Scene "A": a camera found through its node name, two geometry pieces and
\* a light below a transformed parent, then a root with a light and a third
\* geometry piece.
SceneA ==
    Scene(Some("A"), <<
        Node(Some("rig"), <<2,1,3>>, None, None, None, <<
            Node(Some("main"), <<2,3,1>>, None,
                 Some(CameraType(Some("persp1"), "perspective")), None, <<>>),
            Node(Some("body"), <<1,3,2>>, Some(<<"g1", "g2">>), None, Some("point"), <<>>) >>),
        Node(Some("sun"), <<3,2,1>>, Some(<<"g4">>), None, Some("directional"), <<>>) >>)

\* Scene "B": a node called "main" that carries no camera, an unnamed first
\* camera, then two cameras that both answer to "main"; no light.
SceneB ==
    Scene(Some("B"), <<
        Node(Some("main"), <<2,3,1>>, Some(<<"g3">>), None, None, <<
            Node(None, <<1,3,2>>, None,
                 Some(CameraType(None, "orthographic")), None, <<>>) >>),
        Node(Some("cam2"), <<2,1,3>>, Some(<<>>),
             Some(CameraType(Some("main"), "perspective")), None, <<>>),
        Node(Some("main"), <<3,2,1>>, None,
             Some(CameraType(Some("other"), "orthographic")), None, <<>>) >>)

\* An unnamed scene with no camera, no light and a mesh without geometry.
SceneE ==
    Scene(None, <<
        Node(Some("main"), <<3,1,2>>, Some(<<>>), None, None, <<>>) >>)

SceneLib == {SceneA, SceneB, SceneE}

RECURSIVE SeqsUpTo(_, _)
SeqsUpTo(S, n) ==
    IF n = 0 THEN {<<>>}
    ELSE LET shorter == SeqsUpTo(S, n - 1)
         IN  shorter \cup {Append(q, x) : q \in {r \in shorter : Len(r) = n - 1}, x \in S}

\* The files open() can produce: at least one scene (gltf.rs:49); here the
\* scenes of one file are distinct.
Files ==
    {f \in SeqsUpTo(SceneLib, MaxScenes) :
        /\ Len(f) >= 1
        /\ \A i, j \in 1..Len(f) : i # j => f[i] # f[j]}

\* What the callers ask for.
SceneSelectors == {None, Some("A"), Some("B"), Some("Nonexistent")}
CameraNames == {"main", "nope"}
\* A render surface is modelled by the geometry pieces it fails to convert.
Displays == {{}, {"g2"}}

----------------------------------------------------------------------------
(* Traverse::traverse: depth-first, parents before children, yielding      *)
(* (parent world transform, node).                                         *)
RECURSIVE TraverseNode(_, _), TraverseAll(_, _, _)
TraverseNode(node, parent_trans) ==
    <<[parent_trans |-> parent_trans, node |-> node]>>
        \o TraverseAll(node.children, MatMul(parent_trans, node.transform), 1)
TraverseAll(nodes, parent_trans, i) ==
    IF i > Len(nodes) THEN <<>>
    ELSE TraverseNode(nodes[i], parent_trans) \o TraverseAll(nodes, parent_trans, i + 1)

\* scene.roots.iter().flat_map(|root| root.traverse())
SceneNodes(scene) == TraverseAll(scene.roots, Identity, 1)

\* CameraType::to_projection
to_projection(cam) == [projection_of |-> cam.kind]

----------------------------------------------------------------------------
(* GltfFile::find_scene (gltf.rs:66-75): Ok(index) or Err(UnknownScene).   *)
Ok(x) == [tag |-> "Ok", value |-> x]
Err(e) == [tag |-> "Err", value |-> e]
IsOk(r) == r.tag = "Ok"

RECURSIVE position_from(_, _, _)
position_from(list, name, i) ==
    IF i > Len(list) THEN None
    ELSE IF list[i].name = Some(name) THEN Some(i)
    ELSE position_from(list, name, i + 1)

\* (a variant that falls back to the default scene for an unknown name)
find_scene_fallback(list, dflt, name) ==
    IF name = None THEN Ok(dflt)
    ELSE LET pos == position_from(list, Unwrap(name), 1)
         IN  IF IsSome(pos) THEN Ok(Unwrap(pos)) ELSE Ok(dflt)

find_scene(list, dflt, name) ==
    IF name = None THEN Ok(dflt)
    ELSE LET pos == position_from(list, Unwrap(name), 1)
         IN  IF IsSome(pos) THEN Ok(Unwrap(pos)) ELSE Err("UnknownScene")

----------------------------------------------------------------------------
(* The traversals of the three queries.                                    *)

\* gltf.rs:96-105: every geometry piece of every mesh-bearing node, in
\* traversal order, with model_transform = parent_trans * node.transform.
RECURSIVE MeshPieces(_, _, _)
MeshPieces(geometry, model_transform, k) ==
    IF k > Len(geometry) THEN <<>>
    ELSE <<[geo |-> geometry[k], model_transform |-> model_transform]>>
            \o MeshPieces(geometry, model_transform, k + 1)

RECURSIVE GeometryPieces(_, _)
GeometryPieces(pairs, i) ==
    IF i > Len(pairs) THEN <<>>
    ELSE LET node == pairs[i].node
             model_transform == MatMul(pairs[i].parent_trans, node.transform)
         IN  (IF IsSome(node.mesh)
                 THEN MeshPieces(Unwrap(node.mesh), model_transform, 1)
                 ELSE <<>>)
             \o GeometryPieces(pairs, i + 1)

\* ShaderGeometry::new(display, geo, model_transform)? for each piece: the
\* first piece the surface cannot convert ends the query with its error.
ConvertGeometry(display, pieces) ==
    IF \E k \in 1..Len(pieces) : pieces[k].geo \in display
        THEN Err("GeometryError")
        ELSE Ok(pieces)

\* (a variant that multiplies the two transforms in the other order)
RECURSIVE CollectLights_local_first(_, _)
CollectLights_local_first(pairs, i) ==
    IF i > Len(pairs) THEN <<>>
    ELSE LET node == pairs[i].node
             world_transform == MatMul(node.transform, pairs[i].parent_trans)
         IN  (IF IsSome(node.light)
                 THEN <<[data |-> Unwrap(node.light), world_transform |-> world_transform]>>
                 ELSE <<>>)
             \o CollectLights_local_first(pairs, i + 1)

\* gltf.rs:211-218
RECURSIVE CollectLights(_, _)
CollectLights(pairs, i) ==
    IF i > Len(pairs) THEN <<>>
    ELSE LET node == pairs[i].node
             world_transform == MatMul(pairs[i].parent_trans, node.transform)
         IN  (IF IsSome(node.light)
                 THEN <<[data |-> Unwrap(node.light), world_transform |-> world_transform]>>
                 ELSE <<>>)
             \o CollectLights(pairs, i + 1)

MakeCamera(pair) ==
    [view |-> Inverted(MatMul(pair.parent_trans, pair.node.transform)),
     projection |-> to_projection(Unwrap(pair.node.camera))]

\* gltf.rs:131-142: find_map over the nodes, the first camera-bearing one.
RECURSIVE FindFirstCamera(_, _)
FindFirstCamera(pairs, i) ==
    IF i > Len(pairs) THEN None
    ELSE IF IsSome(pairs[i].node.camera) THEN Some(MakeCamera(pairs[i]))
    ELSE FindFirstCamera(pairs, i + 1)

\* (a variant that compares the node name only)
CameraMatches_NodeNameOnly(node, name) ==
    /\ IsSome(node.camera)
    /\ node.name = Some(name)

\* gltf.rs:172: Some(cam) if node.name == Some(name) || cam.name() == Some(name)
CameraMatches(node, name) ==
    /\ IsSome(node.camera)
    /\ \/ node.name = Some(name)
       \/ Unwrap(node.camera).name = Some(name)

\* gltf.rs:168-182
RECURSIVE FindNamedCamera(_, _, _)
FindNamedCamera(pairs, name, i) ==
    IF i > Len(pairs) THEN None
    ELSE IF CameraMatches(pairs[i].node, name) THEN Some(MakeCamera(pairs[i]))
    ELSE FindNamedCamera(pairs, name, i + 1)

----------------------------------------------------------------------------
(* Shared values.  An Arc is modelled by its identity (which query and key *)
(* allocated it, and as which allocation for that key) and its contents.   *)
ArcRef(kind, index, name, gen) == [kind |-> kind, index |-> index, name |-> name, gen |-> gen]
Arc(ref, val) == [ref |-> ref, val |-> val]

RetOk(arc) == [tag |-> "Ok", err |-> "", arc |-> Some(arc)]
RetErr(e) == [tag |-> "Err", err |-> e, arc |-> None]

\* The record of one call: the query, the scene index find_scene resolved
\* (None when it failed), what was returned, and whether the call ran the
\* scene traversal.
Call(op, scene, camera, display, index, ret, traversed) ==
    [op |-> op, scene |-> scene, camera |-> camera, display |-> display,
     index |-> index, ret |-> ret, traversed |-> traversed]

SceneIndexes == 1..Len(scenes)
CameraKeys == SceneIndexes \X CameraNames

\* (a variant without the emptiness test)
is_empty_never(list) == FALSE
\* Vec::is_empty, the test before a list is cached (gltf.rs:107, 220).
is_empty(list) == Len(list) = 0

\* (a lookup that always misses)
cache_get_miss(cache, key) == None
\* HashMap::get on a cache (gltf.rs:89, 160, 204)
cache_get(cache, key) == cache[key]

\* (an insert that replaces the map by one holding the new entry alone)
cache_insert_alone(cache, key, arc) ==
    [k \in DOMAIN cache |-> IF k = key THEN Some(arc) ELSE None]
\* (an insert that is forgotten)
cache_insert_skip(cache, key, arc) == cache
\* HashMap::insert on a cache (gltf.rs:112, 186, 225)
cache_insert(cache, key, arc) == [cache EXCEPT ![key] = Some(arc)]

Allocated(kind, key) == allocs[kind][key]
CountAlloc(kind, key) == [allocs EXCEPT ![kind][key] = @ + 1]

----------------------------------------------------------------------------
(* GltfFile::query_geometry (gltf.rs:79-116)                               *)
QueryGeometry(name, display) ==
    LET found == find_scene(scenes, default_scene, name)
        op(index, ret, traversed) ==
            Call("query_geometry", name, None, display, index, ret, traversed)
    IN
    /\ UNCHANGED <<scenes, default_scene, scene_lights, scene_first_camera, scene_cameras>>
    /\ UNCHANGED <<layoutVars, hostVars>>
    /\ IF ~IsOk(found)
       THEN /\ result' = op(None, RetErr(found.value), FALSE)
            /\ UNCHANGED <<scene_shader_geometry, allocs>>
       ELSE
       LET scene_index == found.value
           cached == cache_get(scene_shader_geometry, scene_index)
       IN
       IF IsSome(cached)
       THEN /\ result' = op(Some(scene_index), RetOk(Unwrap(cached)), FALSE)
            /\ UNCHANGED <<scene_shader_geometry, allocs>>
       ELSE
       LET converted == ConvertGeometry(display,
                            GeometryPieces(SceneNodes(scenes[scene_index]), 1))
       IN
       IF ~IsOk(converted)
       THEN /\ result' = op(Some(scene_index), RetErr(converted.value), TRUE)
            /\ UNCHANGED <<scene_shader_geometry, allocs>>
       ELSE IF is_empty(converted.value)
       THEN /\ result' = op(Some(scene_index), RetErr("NoGeometryFound"), TRUE)
            /\ UNCHANGED <<scene_shader_geometry, allocs>>
       ELSE
       LET scene_geo == Arc(ArcRef("geometry", scene_index, "",
                                   Allocated("geometry", scene_index) + 1),
                            converted.value)
       IN
       /\ Allocated("geometry", scene_index) < MaxAllocs
       /\ allocs' = CountAlloc("geometry", scene_index)
       /\ scene_shader_geometry' = cache_insert(scene_shader_geometry, scene_index, scene_geo)
       /\ result' = op(Some(scene_index), RetOk(scene_geo), TRUE)

(* GltfFile::query_lights (gltf.rs:198-229)                                *)
QueryLights(name) ==
    LET found == find_scene(scenes, default_scene, name)
        op(index, ret, traversed) ==
            Call("query_lights", name, None, {}, index, ret, traversed)
    IN
    /\ UNCHANGED <<scenes, default_scene, scene_shader_geometry, scene_first_camera, scene_cameras>>
    /\ UNCHANGED <<layoutVars, hostVars>>
    /\ IF ~IsOk(found)
       THEN /\ result' = op(None, RetErr(found.value), FALSE)
            /\ UNCHANGED <<scene_lights, allocs>>
       ELSE
       LET scene_index == found.value
           cached == cache_get(scene_lights, scene_index)
       IN
       IF IsSome(cached)
       THEN /\ result' = op(Some(scene_index), RetOk(Unwrap(cached)), FALSE)
            /\ UNCHANGED <<scene_lights, allocs>>
       ELSE
       LET lights == CollectLights(SceneNodes(scenes[scene_index]), 1)
       IN
       IF is_empty(lights)
       THEN /\ result' = op(Some(scene_index), RetErr("NoLightsFound"), TRUE)
            /\ UNCHANGED <<scene_lights, allocs>>
       ELSE
       LET arc == Arc(ArcRef("lights", scene_index, "",
                             Allocated("lights", scene_index) + 1), lights)
       IN
       /\ Allocated("lights", scene_index) < MaxAllocs
       /\ allocs' = CountAlloc("lights", scene_index)
       /\ scene_lights' = cache_insert(scene_lights, scene_index, arc)
       /\ result' = op(Some(scene_index), RetOk(arc), TRUE)

(* GltfFile::query_camera, CameraQuery::FirstInScene (gltf.rs:121-154).    *)
(* The cache is the single field scene_first_camera: Option<Arc<Camera>>.  *)
QueryCameraFirstInScene(name) ==
    LET found == find_scene(scenes, default_scene, name)
        op(index, ret, traversed) ==
            Call("query_camera_first", name, None, {}, index, ret, traversed)
    IN
    /\ UNCHANGED <<scenes, default_scene, scene_shader_geometry, scene_lights, scene_cameras>>
    /\ UNCHANGED <<layoutVars, hostVars>>
    /\ IF ~IsOk(found)
       THEN /\ result' = op(None, RetErr(found.value), FALSE)
            /\ UNCHANGED <<scene_first_camera, allocs>>
       ELSE
       LET scene_index == found.value
       IN
       IF IsSome(scene_first_camera)
       THEN /\ result' = op(Some(scene_index), RetOk(Unwrap(scene_first_camera)), FALSE)
            /\ UNCHANGED <<scene_first_camera, allocs>>
       ELSE
       LET first == FindFirstCamera(SceneNodes(scenes[scene_index]), 1)
       IN
       IF first = None
       THEN /\ result' = op(Some(scene_index), RetErr("NoCameraFound"), TRUE)
            /\ UNCHANGED <<scene_first_camera, allocs>>
       ELSE
       LET cam == Arc(ArcRef("first_camera", scene_index, "",
                             Allocated("first_camera", scene_index) + 1), Unwrap(first))
       IN
       /\ Allocated("first_camera", scene_index) < MaxAllocs
       /\ allocs' = CountAlloc("first_camera", scene_index)
       /\ scene_first_camera' = Some(cam)
       /\ result' = op(Some(scene_index), RetOk(cam), TRUE)

(* GltfFile::query_camera, CameraQuery::Named (gltf.rs:156-194)            *)
QueryCameraNamed(name, scene) ==
    LET found == find_scene(scenes, default_scene, scene)
        op(index, ret, traversed) ==
            Call("query_camera_named", scene, Some(name), {}, index, ret, traversed)
    IN
    /\ UNCHANGED <<scenes, default_scene, scene_shader_geometry, scene_lights, scene_first_camera>>
    /\ UNCHANGED <<layoutVars, hostVars>>
    /\ IF ~IsOk(found)
       THEN /\ result' = op(None, RetErr(found.value), FALSE)
            /\ UNCHANGED <<scene_cameras, allocs>>
       ELSE
       LET scene_index == found.value
           cam_key == <<scene_index, name>>
           cached == cache_get(scene_cameras, cam_key)
       IN
       IF IsSome(cached)
       THEN /\ result' = op(Some(scene_index), RetOk(Unwrap(cached)), FALSE)
            /\ UNCHANGED <<scene_cameras, allocs>>
       ELSE
       LET found_camera == FindNamedCamera(SceneNodes(scenes[scene_index]), name, 1)
       IN
       IF found_camera = None
       THEN /\ result' = op(Some(scene_index), RetErr("UnknownCamera"), TRUE)
            /\ UNCHANGED <<scene_cameras, allocs>>
       ELSE
       LET cam == Arc(ArcRef("named_camera", scene_index, name,
                             Allocated("named_camera", cam_key) + 1), Unwrap(found_camera))
       IN
       /\ Allocated("named_camera", cam_key) < MaxAllocs
       /\ allocs' = CountAlloc("named_camera", cam_key)
       /\ scene_cameras' = cache_insert(scene_cameras, cam_key, cam)
       /\ result' = op(Some(scene_index), RetOk(cam), TRUE)

----------------------------------------------------------------------------
(* The variables of the parts that are not exercised.                      *)
ImageIdle ==
    /\ image = None
    /\ drawn = None

HostIdle ==
    /\ ImageIdle
    /\ measured = None
    /\ opened = None
    /\ mutex = None
    /\ threads = None
    /\ returned = None

LayoutIdle ==
    /\ request = None
    /\ layout = None
    /\ iter = None
    /\ yielded = <<>>
    /\ phase = "idle"

(* GltfFile::open (gltf.rs:28-62): the scenes of the file, the default     *)
(* scene index, and four empty caches.                                     *)
Init ==
    /\ scenes \in Files
    /\ default_scene \in 1..Len(scenes)
    /\ scene_shader_geometry = [i \in SceneIndexes |-> None]
    /\ scene_lights = [i \in SceneIndexes |-> None]
    /\ scene_first_camera = None
    /\ scene_cameras = [k \in CameraKeys |-> None]
    /\ allocs = [geometry |-> [i \in SceneIndexes |-> 0],
                 lights |-> [i \in SceneIndexes |-> 0],
                 first_camera |-> [i \in SceneIndexes |-> 0],
                 named_camera |-> [k \in CameraKeys |-> 0]]
    /\ result = Call("open", None, None, {}, None, RetErr(""), FALSE)
    /\ LayoutIdle
    /\ HostIdle

Next ==
    \/ \E name \in SceneSelectors, display \in Displays : QueryGeometry(name, display)
    \/ \E name \in SceneSelectors : QueryLights(name)
    \/ \E name \in SceneSelectors : QueryCameraFirstInScene(name)
    \/ \E name \in CameraNames, scene \in SceneSelectors : QueryCameraNamed(name, scene)

Spec == Init /\ [][Next]_vars

----------------------------------------------------------------------------
(*                       The render layout engine                          *)
----------------------------------------------------------------------------
(* Bounds of the request trees.                                            *)
MaxDim == 2         \* the largest width/height of a leaf, in pixels
MaxCells == 3       \* children of the root grid
MaxCols == 3        \* column count of the root grid
WordBits == 8       \* width of the model's machine word (u32 in the code)

\* u32 multiplication as a release build computes it: modulo 2^w.
U32Modulus == 2 ^ WordBits
Mul32(a, b) == (a * b) % U32Modulus

(* Size (renderer): width and height, both NonZeroU32; min_value() is the  *)
(* smallest size and max() the per-axis maximum.                           *)
Size(width, height) == [width |-> width, height |-> height]
Size_min_value == Size(1, 1)
Max(a, b) == IF a >= b THEN a ELSE b
Size_max(a, b) == Size(Max(a.width, b.width), Max(a.height, b.height))

(* RenderNode (renderer): the request tree.                                *)
Render(size) == [type |-> "Render", size |-> size]
Empty(size) == [type |-> "Empty", size |-> size]
Layout(nodes, cols) == [type |-> "Layout", nodes |-> nodes, cols |-> cols]

Leaves ==
    {Render(Size(1, 1)), Render(Size(MaxDim, 1)), Render(Size(1, MaxDim)),
     Empty(Size(1, 1)), Empty(Size(MaxDim, MaxDim))}
InnerGrids ==
    {Layout(<<>>, 1),
     Layout(<<Render(Size(1, 1)), Render(Size(MaxDim, 1))>>, 2),
     Layout(<<Render(Size(1, MaxDim)), Empty(Size(1, 1)), Render(Size(1, 1))>>, 2),
     Layout(<<Layout(<<Render(Size(MaxDim, 1)), Render(Size(1, 1))>>, 1)>>, 1)}
RequestTrees ==
    Leaves \cup
    {Layout(nodes, cols) : nodes \in SeqsUpTo(Leaves \cup InnerGrids, MaxCells),
                           cols \in 1..MaxCols}

(* LayoutNode (layout.rs:6-11) and GridLayout (layout.rs:49-55).           *)
LayoutRender(size) == [type |-> "Render", size |-> size]
LayoutEmpty(size) == [type |-> "Empty", size |-> size]
LayoutGrid(cells, cell_width, cell_height, rows, cols) ==
    [type |-> "Grid", cells |-> cells, cell_width |-> cell_width,
     cell_height |-> cell_height, rows |-> rows, cols |-> cols]

\* (a variant that multiplies the cell height by the column count)
GridLayout_height_by_cols(grid) == Mul32(grid.cell_height, grid.cols)

\* GridLayout::width, GridLayout::height, GridLayout::size (layout.rs:75-92)
GridLayout_width(grid) == Mul32(grid.cell_width, grid.cols)
GridLayout_height(grid) == Mul32(grid.cell_height, grid.rows)
GridLayout_size(grid) == Size(GridLayout_width(grid), GridLayout_height(grid))

\* LayoutNode::size (layout.rs:29-37)
LayoutNode_size(node) ==
    IF node.type = "Grid" THEN GridLayout_size(node) ELSE node.size

\* (a variant whose fold keeps the last cell's size instead of the maximum)
RECURSIVE FoldMaxSize_last(_, _, _)
FoldMaxSize_last(cells, i, acc) ==
    IF i > Len(cells) THEN acc
    ELSE FoldMaxSize_last(cells, i + 1, LayoutNode_size(cells[i]))

\* cells.iter().fold(Size::min_value(), |acc, cell| acc.max(cell.size()))
RECURSIVE FoldMaxSize(_, _, _)
FoldMaxSize(cells, i, acc) ==
    IF i > Len(cells) THEN acc
    ELSE FoldMaxSize(cells, i + 1, Size_max(acc, LayoutNode_size(cells[i])))

\* (a variant whose row count is len / cols + 1)
GridLayout_new_rows_plus_one(cells, cols) ==
    LET cell == FoldMaxSize(cells, 1, Size_min_value)
        rows == (Len(cells) \div cols) + 1
    IN  LayoutGrid(cells, cell.width, cell.height, rows, cols)

\* GridLayout::new (layout.rs:58-72), for a non-empty cell list.
GridLayout_new(cells, cols) ==
    LET cell == FoldMaxSize(cells, 1, Size_min_value)
        rows == ((Len(cells) - 1) \div cols) + 1
    IN  LayoutGrid(cells, cell.width, cell.height, rows, cols)

\* (a variant without the assertion)
cells_rejected_never(cells) == FALSE
\* assert!(!cells.is_empty(), ..) in GridLayout::new (layout.rs:59)
cells_rejected(cells) == Len(cells) = 0

\* From<RenderNode> for LayoutNode (layout.rs:13-26).  None stands for the
\* panic of the assertion in GridLayout::new (layout.rs:59), which unwinds
\* through every enclosing conversion.
RECURSIVE LayoutNode_from(_)
LayoutNode_from(node) ==
    IF node.type = "Render" THEN Some(LayoutRender(node.size))
    ELSE IF node.type = "Empty" THEN Some(LayoutEmpty(node.size))
    ELSE LET converted == [i \in 1..Len(node.nodes) |-> LayoutNode_from(node.nodes[i])]
         IN  IF \E i \in 1..Len(node.nodes) : converted[i] = None THEN None
             ELSE IF cells_rejected(converted) THEN None
             ELSE Some(GridLayout_new([i \in 1..Len(node.nodes) |-> Unwrap(converted[i])],
                                      node.cols))

LayoutOffset(x, y) == [x |-> x, y |-> y]
Target(offset, node) == [offset |-> offset, node |-> node]

----------------------------------------------------------------------------
(* The caller converts the request tree ...                                *)
Build ==
    /\ phase = "request"
    /\ LET built == LayoutNode_from(Unwrap(request))
       IN  /\ layout' = built
           /\ phase' = IF built = None THEN "panicked" ELSE "built"
    /\ UNCHANGED <<request, iter, yielded>>
    /\ UNCHANGED <<backendVars, hostVars>>

(* ... calls LayoutNode::iter_targets (layout.rs:39-44) ...                *)
(* (`layout` keeps the tree as it was built, for reference.)               *)
IterTargets ==
    /\ phase = "built"
    /\ iter' = Some([node |-> layout, current |-> 0])
    /\ phase' = "iterating"
    /\ UNCHANGED <<request, layout, yielded>>
    /\ UNCHANGED <<backendVars, hostVars>>

\* (a variant with row and column exchanged)
GridTarget_swapped(grid, current) ==
    LET row == current % grid.cols
        col == current \div grid.cols
    IN  Target(LayoutOffset(Mul32(col, grid.cell_width), Mul32(row, grid.cell_height)),
               Head(grid.cells))

\* (a variant that places every cell in the first row)
GridTarget_first_row(grid, current) ==
    LET col == current % grid.cols
    IN  Target(LayoutOffset(Mul32(col, grid.cell_width), 0), Head(grid.cells))

\* The grid arm of next() (layout.rs:122-152): what it yields and the
\* iterator it leaves behind.
GridTarget(grid, current) ==
    LET row == current \div grid.cols
        col == current % grid.cols
    IN  Target(LayoutOffset(Mul32(col, grid.cell_width), Mul32(row, grid.cell_height)),
               Head(grid.cells))

\* (a variant that builds the remaining grid anew from the shorter list)
GridRemaining_recomputed(grid) == GridLayout_new(Tail(grid.cells), grid.cols)
\* (a variant that forgets to remove the yielded cell)
GridRemaining_kept(grid) == grid
\* cells.remove(0) and the grid put back in the iterator (layout.rs:141-151)
GridRemaining(grid) ==
    LayoutGrid(Tail(grid.cells), grid.cell_width, grid.cell_height, grid.rows, grid.cols)

\* (a variant that leaves the node in the iterator)
IterAfterTake_kept(it) == it
\* self.node.take() (layout.rs:113): the iterator without its node
IterAfterTake(it) == [node |-> None, current |-> it.current]

(* ... and LayoutTargetIter::next (layout.rs:111-154) until it is None.    *)
IterNext ==
    /\ phase \in {"iterating", "done"}
    /\ LET it == Unwrap(iter)
       IN  IF it.node = None
           THEN \* None => None
                /\ phase' = "done"
                /\ UNCHANGED <<iter, yielded>>
           ELSE LET node == Unwrap(it.node)
                IN  IF node.type \in {"Render", "Empty"}
                    THEN /\ yielded' = Append(yielded, Target(LayoutOffset(0, 0), node))
                         /\ iter' = Some(IterAfterTake(it))
                         /\ UNCHANGED phase
                    ELSE IF node.cells = <<>>
                    THEN \* the node was taken and is not put back
                         /\ iter' = Some(IterAfterTake(it))
                         /\ phase' = "done"
                         /\ UNCHANGED yielded
                    ELSE /\ yielded' = Append(yielded, GridTarget(node, it.current))
                         /\ iter' = Some([node |-> Some(GridRemaining(node)),
                                          current |-> it.current + 1])
                         /\ UNCHANGED phase
    /\ UNCHANGED <<request, layout>>
    /\ UNCHANGED <<backendVars, hostVars>>

\* The backend variables while only the layout engine is exercised.
BackendIdle ==
    /\ scenes = <<SceneE>>
    /\ default_scene = 1
    /\ scene_shader_geometry = [i \in SceneIndexes |-> None]
    /\ scene_lights = [i \in SceneIndexes |-> None]
    /\ scene_first_camera = None
    /\ scene_cameras = [k \in CameraKeys |-> None]
    /\ allocs = [geometry |-> [i \in SceneIndexes |-> 0],
                 lights |-> [i \in SceneIndexes |-> 0],
                 first_camera |-> [i \in SceneIndexes |-> 0],
                 named_camera |-> [k \in CameraKeys |-> 0]]
    /\ result = Call("open", None, None, {}, None, RetErr(""), FALSE)

InitLayout ==
    /\ request \in {Some(t) : t \in RequestTrees}
    /\ layout = None
    /\ iter = None
    /\ yielded = <<>>
    /\ phase = "request"
    /\ BackendIdle
    /\ HostIdle

NextLayout ==
    \/ Build
    \/ IterTargets
    \/ IterNext

SpecLayout == InitLayout /\ [][NextLayout]_vars

\* The same engine with a caller that keeps calling next() on the iterator
\* it holds (a loop over iter_targets()).
SpecLayoutLive == SpecLayout /\ WF_vars(IterNext)

----------------------------------------------------------------------------
(*                     Properties of the query backend                     *)
----------------------------------------------------------------------------
SetMin(S) == CHOOSE m \in S : \A x \in S : m <= x
SetMax(S) == CHOOSE m \in S : \A x \in S : m >= x

\* The world transform of the k-th node of a scene, in traversal order.
WorldTransform(pairs, k) == MatMul(pairs[k].parent_trans, pairs[k].node.transform)
CameraAt(pairs, k) ==
    [view |-> Inverted(WorldTransform(pairs, k)),
     projection |-> to_projection(Unwrap(pairs[k].node.camera))]
CameraBearing(pairs) == {k \in 1..Len(pairs) : pairs[k].node.camera # None}

ReturnedOk(call) == call.ret.tag = "Ok"
ReturnedErr(call, e) == call.ret.tag = "Err" /\ call.ret.err = e
ReturnedVal(call) == Unwrap(call.ret.arc).val
ReturnedRef(call) == Unwrap(call.ret.arc).ref

\* C1: query_camera(FirstInScene) for a scene that resolves returns the
\* camera of the first camera-bearing node of THAT scene (view = inverse of
\* the node's world transform), and fails with NoCameraFound when that scene
\* has no camera-bearing node, whatever was queried before.
C1_FirstCameraIsOfTheQueriedScene ==
    (result.op = "query_camera_first" /\ IsSome(result.index)) =>
        LET pairs == SceneNodes(scenes[Unwrap(result.index)])
            cams == CameraBearing(pairs)
        IN  IF cams = {}
            THEN ReturnedErr(result, "NoCameraFound")
            ELSE /\ ReturnedOk(result)
                 /\ ReturnedVal(result) = CameraAt(pairs, SetMin(cams))

\* C2: once query_geometry has succeeded for a scene index, every later
\* query_geometry that resolves to that index (through any selector) returns
\* the very object allocated by the first call, without traversing the scene.
C2_GeometryReturnedIsShared ==
    [][\A i \in SceneIndexes :
          (/\ allocs.geometry[i] >= 1
           /\ result'.op = "query_geometry"
           /\ result'.index = Some(i))
          => /\ ReturnedOk(result')
             /\ ReturnedRef(result') = ArcRef("geometry", i, "", 1)
             /\ ~result'.traversed
             /\ allocs'.geometry[i] = 1]_vars

\* A geometry query through the default selector answered from the cache
\* that a query by scene name can have filled.
C2_Witness ==
    /\ result.op = "query_geometry"
    /\ result.scene = None
    /\ ReturnedOk(result)
    /\ ~result.traversed
    /\ Len(scenes) = 2
    /\ default_scene = 2
    /\ scenes[2].name = Some("B")

\* C5: cache permanence.  Whatever query runs, an entry present in the
\* geometry, lights, first-camera or named-camera cache is still there
\* afterwards, unchanged (same shared object, same contents).
C5_CacheEntriesArePermanent ==
    [][/\ \A i \in SceneIndexes :
            scene_shader_geometry[i] # None
                => scene_shader_geometry'[i] = scene_shader_geometry[i]
       /\ \A i \in SceneIndexes :
            scene_lights[i] # None => scene_lights'[i] = scene_lights[i]
       /\ scene_first_camera # None => scene_first_camera' = scene_first_camera
       /\ \A k \in CameraKeys :
            scene_cameras[k] # None => scene_cameras'[k] = scene_cameras[k]]_vars

\* All four caches hold an entry and a failing query (a camera name that no
\* node answers to) has just run against them.
C5_Witness ==
    /\ \E i \in SceneIndexes : scene_shader_geometry[i] # None
    /\ \E i \in SceneIndexes : scene_lights[i] # None
    /\ scene_first_camera # None
    /\ \E k \in CameraKeys : scene_cameras[k] # None
    /\ result.op = "query_camera_named"
    /\ ReturnedErr(result, "UnknownCamera")
    /\ result.traversed

NamesOfScenes == {scenes[i].name : i \in SceneIndexes}
EmptinessErrors == {"NoGeometryFound", "NoLightsFound", "NoCameraFound"}

\* C6: a query whose selector names a scene that no loaded scene carries
\* fails with UnknownScene (no scene is resolved, nothing cached is returned);
\* an emptiness error is only returned for a selector that resolved; and a
\* selector without a scene name resolves to the default scene.
C6_UnknownSceneIsDistinct ==
    result.op # "open" =>
        /\ (result.scene # None /\ result.scene \notin NamesOfScenes)
              => /\ ReturnedErr(result, "UnknownScene")
                 /\ result.index = None
                 /\ result.ret.arc = None
        /\ (result.ret.tag = "Err" /\ result.ret.err \in EmptinessErrors)
              => /\ result.index # None
                 /\ result.scene = None \/ result.scene \in NamesOfScenes
        /\ result.scene = None => result.index = Some(default_scene)

\* Every cache is populated and a query for "Nonexistent" has just failed.
C6_Witness ==
    /\ result.scene = Some("Nonexistent")
    /\ ReturnedErr(result, "UnknownScene")
    /\ result.op = "query_geometry"
    /\ \E i \in SceneIndexes : scene_shader_geometry[i] # None
    /\ scene_first_camera # None

LightBearing(pairs) == {k \in 1..Len(pairs) : pairs[k].node.light # None}
PieceBearing(pairs) ==
    {k \in 1..Len(pairs) : pairs[k].node.mesh # None /\ Unwrap(pairs[k].node.mesh) # <<>>}

\* C7: on a resolved scene without light-bearing node query_lights fails
\* with NoLightsFound, on a resolved scene without geometry piece
\* query_geometry fails with NoGeometryFound; neither query returns an empty
\* list and neither cache ever holds one.
C7_EmptyResultsAreErrors ==
    /\ (result.op = "query_lights" /\ IsSome(result.index)
          /\ LightBearing(SceneNodes(scenes[Unwrap(result.index)])) = {})
        => ReturnedErr(result, "NoLightsFound")
    /\ (result.op = "query_geometry" /\ IsSome(result.index)
          /\ PieceBearing(SceneNodes(scenes[Unwrap(result.index)])) = {})
        => ReturnedErr(result, "NoGeometryFound")
    /\ (result.op \in {"query_lights", "query_geometry"} /\ ReturnedOk(result))
        => Len(ReturnedVal(result)) >= 1
    /\ \A i \in SceneIndexes :
        /\ scene_lights[i] # None => Len(Unwrap(scene_lights[i]).val) >= 1
        /\ scene_shader_geometry[i] # None
              => Len(Unwrap(scene_shader_geometry[i]).val) >= 1

\* query_geometry on the default scene, whose only mesh has no geometry
\* pieces: the scene was traversed, the error returned and nothing cached.
C7_Witness ==
    /\ result.op = "query_geometry"
    /\ ReturnedErr(result, "NoGeometryFound")
    /\ result.traversed
    /\ result.scene = None
    /\ scenes[default_scene] = SceneE
    /\ \A i \in SceneIndexes : scene_shader_geometry[i] = None

MatchingCameras(pairs, name) ==
    {k \in CameraBearing(pairs) :
        \/ pairs[k].node.name = Some(name)
        \/ Unwrap(pairs[k].node.camera).name = Some(name)}
ExpectedNamedCamera(i, name) ==
    LET pairs == SceneNodes(scenes[i])
    IN  CameraAt(pairs, SetMin(MatchingCameras(pairs, name)))

\* C8: query_camera(Named) returns the camera of the first node, in
\* traversal order of the resolved scene, that carries a camera and whose
\* node name or camera name is the requested name; it fails with
\* UnknownCamera when there is none; the result is cached under
\* (scene index, name).
C8_NamedCameraIsFirstMatch ==
    /\ (result.op = "query_camera_named" /\ IsSome(result.index)) =>
        LET i == Unwrap(result.index)
            name == Unwrap(result.camera)
        IN  IF MatchingCameras(SceneNodes(scenes[i]), name) = {}
            THEN ReturnedErr(result, "UnknownCamera")
            ELSE /\ ReturnedOk(result)
                 /\ ReturnedVal(result) = ExpectedNamedCamera(i, name)
                 /\ scene_cameras[<<i, name>>] = result.ret.arc
    /\ \A k \in CameraKeys :
        scene_cameras[k] # None
            => /\ MatchingCameras(SceneNodes(scenes[k[1]]), k[2]) # {}
               /\ Unwrap(scene_cameras[k]).val = ExpectedNamedCamera(k[1], k[2])

\* "main" asked in scene B, where the first node called "main" has no
\* camera and a later camera-bearing node is also called "main": the camera
\* named "main" (perspective) is returned; scene A's "main" is cached too.
C8_Witness ==
    /\ result.op = "query_camera_named"
    /\ result.camera = Some("main")
    /\ IsSome(result.index)
    /\ scenes[Unwrap(result.index)] = SceneB
    /\ ReturnedOk(result)
    /\ ReturnedVal(result).projection = to_projection(CameraType(Some("main"), "perspective"))
    /\ \E k \in CameraKeys :
        /\ scenes[k[1]] = SceneA
        /\ k[2] = "main"
        /\ scene_cameras[k] # None
        /\ scene_cameras[k] # result.ret.arc

----------------------------------------------------------------------------
(*                    Properties of the layout engine                      *)
----------------------------------------------------------------------------
Iterated == phase \in {"iterating", "done"}
RootIsGrid == layout # None /\ Unwrap(layout).type = "Grid"

\* C3: for a Grid root with n children and c columns, iter_targets yields
\* the children themselves (Leaf, Empty or nested grid) in their original
\* order, the i-th (from 0) at offset ((i mod c) * cellWidth,
\* (i div c) * cellHeight), and exactly n of them by the time it ends.
C3_GridCellsInRowMajorOrder ==
    (Iterated /\ RootIsGrid) =>
        LET grid == Unwrap(layout)
            n == Len(grid.cells)
            c == grid.cols
        IN  /\ Len(yielded) <= n
            /\ \A k \in 1..Len(yielded) :
                /\ yielded[k].node = grid.cells[k]
                /\ yielded[k].offset.x = ((k - 1) % c) * grid.cell_width
                /\ yielded[k].offset.y = ((k - 1) \div c) * grid.cell_height
            /\ phase = "done" => Len(yielded) = n

\* Three children in two columns, an Empty among them taking its cell and a
\* nested grid yielded as a child; the third child starts the short last row.
C3_Witness ==
    /\ phase = "done"
    /\ RootIsGrid
    /\ Unwrap(layout).cols = 2
    /\ Len(yielded) = 3
    /\ yielded[1].node.type = "Empty"
    /\ yielded[2].node.type = "Grid"
    /\ yielded[2].offset = LayoutOffset(Unwrap(layout).cell_width, 0)
    /\ yielded[3].node.type = "Render"
    /\ yielded[3].offset = LayoutOffset(0, Unwrap(layout).cell_height)
    /\ Unwrap(layout).cell_width > 1

\* The flattening the specification describes: every leaf and placeholder
\* of the tree with its absolute offset, nested grids opened at their cell's
\* offset.
RECURSIVE FlattenTargets(_, _), FlattenCells(_, _, _)
FlattenTargets(node, origin) ==
    IF node.type = "Grid" THEN FlattenCells(node, origin, 1)
    ELSE <<Target(origin, node)>>
FlattenCells(grid, origin, k) ==
    IF k > Len(grid.cells) THEN <<>>
    ELSE FlattenTargets(grid.cells[k],
            LayoutOffset(origin.x + ((k - 1) % grid.cols) * grid.cell_width,
                         origin.y + ((k - 1) \div grid.cols) * grid.cell_height))
         \o FlattenCells(grid, origin, k + 1)

\* C4: iter_targets flattens nested grids: no yielded item is a Grid, and
\* the complete sequence is the leaves and placeholders of the whole tree,
\* each at its absolute offset (outer cell offset + offset inside the inner
\* grid).
C4_NestedGridsAreFlattened ==
    /\ \A k \in 1..Len(yielded) : yielded[k].node.type \in {"Render", "Empty"}
    /\ (phase = "done" /\ layout # None)
          => yielded = FlattenTargets(Unwrap(layout), LayoutOffset(0, 0))

RECURSIVE GridsOf(_)
GridsOf(node) ==
    IF node.type = "Grid"
    THEN {node} \cup UNION {GridsOf(node.cells[k]) : k \in 1..Len(node.cells)}
    ELSE {}
ChildSizes(grid) == {LayoutNode_size(grid.cells[k]) : k \in 1..Len(grid.cells)}

\* C9: in every GridLayout built, cell_width is the largest width and
\* cell_height the largest height among the immediate children's sizes, each
\* axis on its own, so that every child fits its cell.
C9_CellIsPerAxisMaximum ==
    layout # None =>
        \A grid \in GridsOf(Unwrap(layout)) :
            /\ grid.cell_width = SetMax({s.width : s \in ChildSizes(grid)})
            /\ grid.cell_height = SetMax({s.height : s \in ChildSizes(grid)})
            /\ \A s \in ChildSizes(grid) :
                s.width <= grid.cell_width /\ s.height <= grid.cell_height

\* A grid whose cell width comes from one child and whose cell height from
\* another: no child is as large as the cell (the (10,10), (20,5) case).
C9_Witness ==
    /\ RootIsGrid
    /\ Len(Unwrap(layout).cells) = 2
    /\ \E s, t \in ChildSizes(Unwrap(layout)) :
        /\ s.width = Unwrap(layout).cell_width
        /\ s.height < Unwrap(layout).cell_height
        /\ t.height = Unwrap(layout).cell_height
        /\ t.width < Unwrap(layout).cell_width

\* The size algebra of the specification, on the request tree.
RECURSIVE RequestSize(_)
RequestSize(node) ==
    IF node.type \in {"Render", "Empty"} THEN node.size
    ELSE LET sizes == {RequestSize(node.nodes[k]) : k \in 1..Len(node.nodes)}
             n == Len(node.nodes)
             rows == (n + node.cols - 1) \div node.cols
         IN  Size(SetMax({s.width : s \in sizes}) * node.cols,
                  SetMax({s.height : s \in sizes}) * rows)

RECURSIVE SameShape(_, _)
SameShape(req, lay) ==
    IF req.type = "Render" THEN lay = LayoutRender(req.size)
    ELSE IF req.type = "Empty" THEN lay = LayoutEmpty(req.size)
    ELSE /\ lay.type = "Grid"
         /\ lay.cols = req.cols
         /\ Len(lay.cells) = Len(req.nodes)
         /\ \A k \in 1..Len(req.nodes) : SameShape(req.nodes[k], lay.cells[k])

\* C10: the size LayoutNode::size() reports for the tree built from a
\* request tree is the recursive size algebra of that request tree, and the
\* built tree has the shape and child order of the request tree.
C10_SizeIsTheSizeAlgebra ==
    layout # None =>
        /\ LayoutNode_size(Unwrap(layout)) = RequestSize(Unwrap(request))
        /\ SameShape(Unwrap(request), Unwrap(layout))

\* A grid of three children, in two columns, one of them a grid holding a
\* grid: the size comes from three levels.
C10_Witness ==
    /\ RootIsGrid
    /\ Unwrap(layout).cols = 2
    /\ Unwrap(layout).rows = 2
    /\ \E k \in 1..Len(Unwrap(layout).cells) :
        LET cell == Unwrap(layout).cells[k]
        IN  /\ cell.type = "Grid"
            /\ cell.cells[1].type = "Grid"
            /\ Unwrap(layout).cell_width = LayoutNode_size(cell).width
    /\ LayoutNode_size(Unwrap(layout)).height > LayoutNode_size(Unwrap(layout)).width

----------------------------------------------------------------------------
\* C11: in every GridLayout built from n children and c columns, rows is
\* the ceiling of n / c: rows >= 1, rows * c >= n and (rows - 1) * c < n.
C11_RowsIsCeiling ==
    layout # None =>
        \A grid \in GridsOf(Unwrap(layout)) :
            LET n == Len(grid.cells)
                c == grid.cols
            IN  /\ grid.rows >= 1
                /\ grid.rows * c >= n
                /\ (grid.rows - 1) * c < n

\* Three children in two columns give two rows; a grid nested in it has as
\* many children as columns and one row.
C11_Witness ==
    /\ RootIsGrid
    /\ Len(Unwrap(layout).cells) = 3
    /\ Unwrap(layout).cols = 2
    /\ Unwrap(layout).rows = 2
    /\ \E grid \in GridsOf(Unwrap(layout)) :
        /\ Len(grid.cells) = 2
        /\ grid.cols = 2
        /\ grid.rows = 1

RECURSIVE HasEmptyGrid(_)
HasEmptyGrid(node) ==
    /\ node.type = "Layout"
    /\ \/ Len(node.nodes) = 0
       \/ \E k \in 1..Len(node.nodes) : HasEmptyGrid(node.nodes[k])

\* The GridLayout values that exist: those of the built tree, those of the
\* yielded nodes, and the one the iterator holds.
GridsBuilt ==
    (IF layout # None THEN GridsOf(Unwrap(layout)) ELSE {})
    \cup UNION {GridsOf(yielded[k].node) : k \in 1..Len(yielded)}
GridsHeldByIterator ==
    IF iter # None /\ Unwrap(iter).node # None
    THEN GridsOf(Unwrap(Unwrap(iter).node))
    ELSE {}

\* C12 as stated: a request tree with an empty grid at any depth is rejected
\* by the conversion (no layout results), and every GridLayout that exists
\* has at least one cell.
C12_EveryGridLayoutHasACell ==
    /\ phase # "request" =>
          /\ HasEmptyGrid(Unwrap(request)) <=> phase = "panicked"
          /\ phase = "panicked" <=> layout = None
    /\ \A grid \in GridsBuilt \cup GridsHeldByIterator : Len(grid.cells) >= 1

\* C12 as amended: a request tree with an empty grid at any depth is
\* rejected by the conversion, and every GridLayout made by GridLayout::new
\* (the grids of the built tree and of the yielded nodes) has at least one
\* cell; the grid the iterator keeps for its remaining cells is not one of
\* them.
C12_EveryBuiltGridLayoutHasACell ==
    /\ phase # "request" =>
          /\ HasEmptyGrid(Unwrap(request)) <=> phase = "panicked"
          /\ phase = "panicked" <=> layout = None
    /\ \A grid \in GridsBuilt : Len(grid.cells) >= 1

\* The conversion of a tree whose empty grid sits two levels down, below a
\* non-empty sibling, has panicked.
C12_Witness ==
    /\ phase = "panicked"
    /\ layout = None
    /\ Unwrap(request).type = "Layout"
    /\ Len(Unwrap(request).nodes) = 2
    /\ Unwrap(request).nodes[1].type = "Render"
    /\ Unwrap(request).nodes[2] = Layout(<<>>, 1)

\* C13: for a bare Leaf or Empty root, iter_targets yields that node at
\* offset (0, 0), once, and then ends.
C13_BareRootYieldsOnce ==
    (Iterated /\ layout # None /\ ~RootIsGrid) =>
        /\ Len(yielded) <= 1
        /\ \A k \in 1..Len(yielded) :
              yielded[k] = Target(LayoutOffset(0, 0), Unwrap(layout))
        /\ phase = "done" => Len(yielded) = 1
        /\ Len(yielded) = 1 => Unwrap(iter).node = None

\* An Empty root larger than one pixel, yielded and followed by None.
C13_Witness ==
    /\ phase = "done"
    /\ layout = Some(LayoutEmpty(Size(MaxDim, MaxDim)))
    /\ yielded = <<Target(LayoutOffset(0, 0), LayoutEmpty(Size(MaxDim, MaxDim)))>>

RECURSIVE LeafCount(_)
LeafCount(node) ==
    IF node.type = "Grid"
    THEN LET RECURSIVE Sum(_)
             Sum(k) == IF k = 0 THEN 0 ELSE LeafCount(node.cells[k]) + Sum(k - 1)
         IN  Sum(Len(node.cells))
    ELSE 1

\* C14: repeated next() calls return None after at most as many yielded
\* pairs as the tree has Leaf and Empty nodes, and once None has been
\* returned every later call returns None and yields nothing more.
C14_IterationEndsAndStaysEnded ==
    /\ [](Iterated /\ layout # None => Len(yielded) <= LeafCount(Unwrap(layout)))
    /\ [][phase = "done" => (phase' = "done" /\ yielded' = yielded)]_vars
    /\ (phase = "iterating") ~> (phase = "done")

\* The iteration of a three-cell grid holding a grid has ended after three
\* pairs, fewer than the four leaves of the tree, and the iterator is left
\* without a node.
C14_Witness ==
    /\ phase = "done"
    /\ RootIsGrid
    /\ Len(yielded) = 3
    /\ LeafCount(Unwrap(layout)) = 4
    /\ Unwrap(iter).node = None

\* The rectangle of a yielded pair: top-left at the offset, extent the
\* size of the node.
TargetRect(target) ==
    LET size == LayoutNode_size(target.node)
    IN  [left |-> target.offset.x, top |-> target.offset.y,
         right |-> target.offset.x + size.width,
         bottom |-> target.offset.y + size.height]
RectsOverlap(a, b) ==
    /\ a.left < b.right /\ b.left < a.right
    /\ a.top < b.bottom /\ b.top < a.bottom
RectInside(a, size) ==
    /\ 0 <= a.left /\ a.right <= size.width
    /\ 0 <= a.top /\ a.bottom <= size.height

\* C15: the rectangles of the yielded pairs are pairwise non-overlapping
\* and each lies inside the canvas (0, 0)..size(root).
C15_TargetsAreDisjointAndInsideCanvas ==
    (Iterated /\ layout # None) =>
        /\ \A i, j \in 1..Len(yielded) :
              i < j => ~RectsOverlap(TargetRect(yielded[i]), TargetRect(yielded[j]))
        /\ \A i \in 1..Len(yielded) :
              RectInside(TargetRect(yielded[i]), LayoutNode_size(Unwrap(layout)))

\* Three pairs in two rows of two columns, of children of different sizes,
\* one of them a grid, the last one in the second row.
C15_Witness ==
    /\ phase = "done"
    /\ RootIsGrid
    /\ Unwrap(layout).cols = 2
    /\ Len(yielded) = 3
    /\ yielded[3].offset.x = 0
    /\ yielded[3].offset.y > 0
    /\ \E i \in 1..3 : yielded[i].node.type = "Grid"
    /\ \E i, j \in 1..3 : LayoutNode_size(yielded[i].node) # LayoutNode_size(yielded[j].node)

----------------------------------------------------------------------------
\* A node of a scene is named by its path: the index of a root, then the
\* index of a child, and so on.  Depth-first order, parents before children
\* and siblings in declaration order, is the order of the paths in which a
\* prefix comes first and otherwise the first differing index decides.
RECURSIVE PathsBelow(_, _)
PathsBelow(nodes, prefix) ==
    UNION {{Append(prefix, k)} \cup PathsBelow(nodes[k].children, Append(prefix, k)) :
           k \in 1..Len(nodes)}
RECURSIVE NodeAtPath(_, _)
NodeAtPath(nodes, path) ==
    IF Len(path) = 1 THEN nodes[path[1]]
    ELSE NodeAtPath(nodes[path[1]].children, Tail(path))
\* The product of the local transforms from the root down to the node.
RECURSIVE WorldAtPath(_, _)
WorldAtPath(nodes, path) ==
    IF Len(path) = 1 THEN nodes[path[1]].transform
    ELSE MatMul(nodes[path[1]].transform, WorldAtPath(nodes[path[1]].children, Tail(path)))
PathBefore(p, q) ==
    /\ p # q
    /\ \/ /\ Len(p) < Len(q)
          /\ \A k \in 1..Len(p) : p[k] = q[k]
       \/ \E k \in 1..Len(p) :
            /\ k <= Len(q)
            /\ \A j \in 1..(k - 1) : p[j] = q[j]
            /\ p[k] < q[k]

LightPaths(scene) ==
    {p \in PathsBelow(scene.roots, <<>>) : NodeAtPath(scene.roots, p).light # None}
\* A geometry piece is named by the path of its node and its index in the mesh.
MeshPaths(scene) ==
    {p \in PathsBelow(scene.roots, <<>>) : NodeAtPath(scene.roots, p).mesh # None}
PieceSlots(scene) ==
    UNION {{<<p, k>> : k \in 1..Len(Unwrap(NodeAtPath(scene.roots, p).mesh))} :
           p \in MeshPaths(scene)}
SlotBefore(s, t) == PathBefore(s[1], t[1]) \/ (s[1] = t[1] /\ s[2] < t[2])

\* C16: a successful query_lights returns one entry per light-bearing node
\* and a successful query_geometry one entry per geometry piece of every
\* mesh-bearing node of the resolved scene, in depth-first order, each with
\* world transform = parent world transform * local transform.
C16_ListsFollowTheTraversal ==
    (ReturnedOk(result) /\ result.op \in {"query_lights", "query_geometry"}) =>
        LET scene == scenes[Unwrap(result.index)]
            val == ReturnedVal(result)
        IN  IF result.op = "query_lights"
            THEN /\ Len(val) = Cardinality(LightPaths(scene))
                 /\ \A p \in LightPaths(scene) :
                      val[1 + Cardinality({q \in LightPaths(scene) : PathBefore(q, p)})]
                        = [data |-> Unwrap(NodeAtPath(scene.roots, p).light),
                           world_transform |-> WorldAtPath(scene.roots, p)]
            ELSE /\ Len(val) = Cardinality(PieceSlots(scene))
                 /\ \A s \in PieceSlots(scene) :
                      val[1 + Cardinality({t \in PieceSlots(scene) : SlotBefore(t, s)})]
                        = [geo |-> Unwrap(NodeAtPath(scene.roots, s[1]).mesh)[s[2]],
                           model_transform |-> WorldAtPath(scene.roots, s[1])]

\* A geometry query that traversed scene "A" and returned its three pieces,
\* two from a child node and one from a later root, after a lights query
\* cached the two lights of the same scene.
C16_Witness ==
    /\ result.op = "query_geometry"
    /\ ReturnedOk(result)
    /\ result.traversed
    /\ scenes[Unwrap(result.index)] = SceneA
    /\ Len(ReturnedVal(result)) = 3
    /\ ReturnedVal(result)[1].model_transform # ReturnedVal(result)[3].model_transform
    /\ scene_lights[Unwrap(result.index)] # None
    /\ Len(Unwrap(scene_lights[Unwrap(result.index)]).val) = 2

----------------------------------------------------------------------------
\* The entries of a cache that a step changes.
ChangedKeys(before, after) == {k \in DOMAIN before : after[k] # before[k]}
QueryErrors ==
    {"UnknownScene", "UnknownCamera", "NoCameraFound", "NoGeometryFound",
     "NoLightsFound", "GeometryError"}

\* C20: a query leaves the scene list and the default scene index unchanged;
\* a failing query leaves the four caches unchanged; a succeeding query
\* changes at most the cache entry of its own query type and key, and only
\* when that entry was absent.
C20_QueryFrame ==
    [][LET call == result'
           geometry == ChangedKeys(scene_shader_geometry, scene_shader_geometry')
           lights == ChangedKeys(scene_lights, scene_lights')
           cameras == ChangedKeys(scene_cameras, scene_cameras')
           first == scene_first_camera' # scene_first_camera
       IN  /\ scenes' = scenes
           /\ default_scene' = default_scene
           /\ call.ret.tag = "Err" =>
                /\ call.ret.err \in QueryErrors
                /\ geometry = {} /\ lights = {} /\ cameras = {} /\ ~first
           /\ call.ret.tag = "Ok" =>
                /\ call.op = "query_geometry" =>
                     /\ lights = {} /\ cameras = {} /\ ~first
                     /\ geometry \subseteq {Unwrap(call.index)}
                     /\ \A k \in geometry : scene_shader_geometry[k] = None
                /\ call.op = "query_lights" =>
                     /\ geometry = {} /\ cameras = {} /\ ~first
                     /\ lights \subseteq {Unwrap(call.index)}
                     /\ \A k \in lights : scene_lights[k] = None
                /\ call.op = "query_camera_named" =>
                     /\ geometry = {} /\ lights = {} /\ ~first
                     /\ cameras \subseteq {<<Unwrap(call.index), Unwrap(call.camera)>>}
                     /\ \A k \in cameras : scene_cameras[k] = None
                /\ call.op = "query_camera_first" =>
                     /\ geometry = {} /\ lights = {} /\ cameras = {}
                     /\ first => scene_first_camera = None
      ]_vars

\* A geometry query that failed in the conversion of a piece, after the
\* traversal, on a file whose four caches hold entries, the geometry cache
\* for the other scene.
C20_Witness ==
    /\ result.op = "query_geometry"
    /\ ReturnedErr(result, "GeometryError")
    /\ result.traversed
    /\ scene_shader_geometry[Unwrap(result.index)] = None
    /\ \E i \in SceneIndexes : scene_shader_geometry[i] # None
    /\ \E i \in SceneIndexes : scene_lights[i] # None
    /\ \E k \in CameraKeys : scene_cameras[k] # None
    /\ scene_first_camera # None

----------------------------------------------------------------------------
(*            The size of a grid whose products leave the word             *)
----------------------------------------------------------------------------
\* Leaf dimensions and column counts up to the largest word value.
WideDims == {1, 2, 2 ^ (WordBits - 1), U32Modulus - 1}
WideCols == {1, 2, 2 ^ (WordBits - 1)}
WideLeaves == {Render(Size(w, h)) : w \in WideDims, h \in WideDims}
WideTrees ==
    {Layout(<<a>>, cols) : a \in WideLeaves, cols \in WideCols}
    \cup {Layout(<<a, b>>, cols) : a \in WideLeaves, b \in WideLeaves, cols \in WideCols}

\* a.get() * b.get() on u32 followed by NonZeroU32::new_unchecked
\* (layout.rs:83-86, 89-92), as the set of outcomes the build can produce.
\* With overflow checks (a debug build) a product that leaves the word
\* panics; without them it wraps, and new_unchecked(0) is undefined
\* behaviour: any value, the invalid 0 included, may be observed.
UndefinedU32 == {0, 1, U32Modulus - 1}
NonZeroProduct(a, b, overflow_checks) ==
    IF a * b < U32Modulus THEN {Ok(a * b)}
    ELSE IF overflow_checks THEN {Err("attempt to multiply with overflow")}
    ELSE IF Mul32(a, b) # 0 THEN {Ok(Mul32(a, b))}
    ELSE {Ok(v) : v \in UndefinedU32}

Measured(tag, width, height) == [tag |-> tag, width |-> width, height |-> height]

\* LayoutNode::size() on the built tree (layout.rs:29-37, 75-92).
Measure ==
    /\ phase = "built"
    /\ LET node == Unwrap(layout)
       IN  IF node.type # "Grid"
           THEN measured' = Some(Measured("size", node.size.width, node.size.height))
           ELSE \E overflow_checks \in BOOLEAN :
                \E w \in NonZeroProduct(node.cell_width, node.cols, overflow_checks),
                   h \in NonZeroProduct(node.cell_height, node.rows, overflow_checks) :
                     measured' = IF IsOk(w) /\ IsOk(h)
                                 THEN Some(Measured("size", w.value, h.value))
                                 ELSE Some(Measured("panic", 0, 0))
    /\ phase' = "measured"
    /\ UNCHANGED <<request, layout, iter, yielded>>
    /\ UNCHANGED <<opened, mutex, threads, returned, imageVars>>
    /\ UNCHANGED backendVars

InitWide ==
    /\ request \in {Some(t) : t \in WideTrees}
    /\ layout = None
    /\ iter = None
    /\ yielded = <<>>
    /\ phase = "request"
    /\ BackendIdle
    /\ HostIdle

NextWide ==
    \/ Build
    \/ Measure

SpecWide == InitWide /\ [][NextWide]_vars

\* C19: width() and height() of a grid are non-zero and equal to the
\* products cell_width * cols and cell_height * rows, for all non-zero
\* word-sized cell sizes, column counts and row counts.
C19_SizeIsTheNonZeroProduct ==
    (phase = "measured" /\ RootIsGrid) =>
        LET grid == Unwrap(layout)
            size == Unwrap(measured)
        IN  /\ size.tag = "size"
            /\ size.width # 0
            /\ size.height # 0
            /\ size.width = grid.cell_width * grid.cols
            /\ size.height = grid.cell_height * grid.rows

----------------------------------------------------------------------------
(*              Opening a file: backend.rs and loaders.rs                  *)
----------------------------------------------------------------------------
\* A path is a sequence of tokens: "/" separates components, "." is a dot,
\* "\\xFF" is a byte that is not valid UTF-8, any other token is text
\* without dots and separators.
Separator == "/"
Dot == "."
InvalidByte == "\\xFF"

\* The paths the callers open.
OpenPaths ==
    {<<"model", Dot, "obj">>,
     <<"model", Dot, "gltf">>,
     <<"model", Dot, "glb">>,
     <<"model", Dot, "OBJ">>,
     <<"model", Dot, "blend">>,
     <<"model">>,
     <<Dot, "obj">>,
     <<"model", Dot>>,
     <<"model", Dot, "tar", Dot, "gltf">>,
     <<"dir", Dot, "obj", Separator, "model">>,
     <<"model", Dot, "obj", InvalidByte>>,
     <<"model", Dot, "glb", Separator, "scene", Dot, "obj">>}
\* What the loader that is called does with the file.
LoaderOutcomes == {"ok", "error", "panic"}

\* Path::file_name: the last component.
file_name(path) ==
    LET seps == {i \in 1..Len(path) : path[i] = Separator}
    IN  IF seps = {} THEN path
        ELSE SubSeq(path, (CHOOSE m \in seps : \A i \in seps : i <= m) + 1, Len(path))

\* Path::extension: the part of the file name after its last dot; None when
\* there is no dot or when the only dot begins the name.
extension(path) ==
    LET name == file_name(path)
        dots == {i \in 1..Len(name) : name[i] = Dot}
        last == CHOOSE m \in dots : \A i \in dots : i <= m
    IN  IF dots = {} THEN None
        ELSE IF last = 1 THEN None
        ELSE Some(SubSeq(name, last + 1, Len(name)))

\* OsStr::to_str: None unless the bytes are valid UTF-8.
to_str(os_str) ==
    IF \E i \in 1..Len(os_str) : os_str[i] = InvalidByte THEN None ELSE Some(os_str)

\* path.extension().and_then(|p| p.to_str())  (backend.rs:35, loaders.rs:23)
extension_str(path) ==
    IF extension(path) = None THEN None ELSE to_str(Unwrap(extension(path)))

\* The match of File::open (backend.rs:35-39): which loader an extension
\* selects.
File_open_match(ext) ==
    IF ext = Some(<<"obj">>) THEN "obj"
    ELSE IF ext = Some(<<"gltf">>) \/ ext = Some(<<"glb">>) THEN "gltf"
    ELSE "none"

\* (a variant without the "glb" pattern)
load_file_match_without_glb(ext) ==
    IF ext = Some(<<"obj">>) THEN "obj"
    ELSE IF ext = Some(<<"gltf">>) THEN "gltf"
    ELSE "none"
\* The match of load_file (loaders.rs:23-27).
load_file_match(ext) ==
    IF ext = Some(<<"obj">>) THEN "obj"
    ELSE IF ext = Some(<<"gltf">>) \/ ext = Some(<<"glb">>) THEN "gltf"
    ELSE "none"

\* One call: the path, the loader that was called ("none" if none was) and
\* what it did, and what the caller got back.
Panicked == [tag |-> "Panic", value |-> [variant |-> "", payload |-> <<>>]]
Variant(variant, payload) == [variant |-> variant, payload |-> payload]
OpenCall(path, loader, outcome, ret) ==
    [path |-> path, loader |-> loader, outcome |-> outcome, ret |-> ret]

\* File::open (backend.rs:33-41)
File_open(path, outcome) ==
    LET loader == File_open_match(extension_str(path))
        call ==
            IF loader = "none"
            THEN OpenCall(path, "none", "not called",
                          Err(Variant("UnsupportedFileExtension", path)))
            ELSE OpenCall(path, loader, outcome,
                    IF outcome = "panic" THEN Panicked
                    ELSE IF outcome = "error"
                    THEN Err(Variant(IF loader = "obj" THEN "ObjError" ELSE "GltfError", path))
                    ELSE Ok(Variant(IF loader = "obj" THEN "Objs" ELSE "Gltf", path)))
    IN  /\ opened' = Some([Unwrap(opened) EXCEPT !.file_open = Some(call)])
        /\ UNCHANGED <<measured, mutex, threads, returned, imageVars>>
        /\ UNCHANGED <<backendVars, layoutVars>>

\* load_file (loaders.rs:22-28)
load_file(path, outcome) ==
    LET loader == load_file_match(extension_str(path))
        call ==
            IF loader = "none"
            THEN OpenCall(path, "none", "not called",
                          Err(Variant("UnsupportedFileExtension", path)))
            ELSE OpenCall(path, loader, outcome,
                    IF outcome = "panic" THEN Panicked
                    ELSE IF outcome = "error"
                    THEN Err(Variant(IF loader = "obj" THEN "ObjError" ELSE "GltfError", path))
                    ELSE Ok(Variant("Scene", path)))
    IN  /\ opened' = Some([Unwrap(opened) EXCEPT !.load_file = Some(call)])
        /\ UNCHANGED <<measured, mutex, threads, returned, imageVars>>
        /\ UNCHANGED <<backendVars, layoutVars>>

InitOpen ==
    /\ opened = Some([file_open |-> None, load_file |-> None])
    /\ measured = None
    /\ mutex = None
    /\ threads = None
    /\ returned = None
    /\ ImageIdle
    /\ BackendIdle
    /\ LayoutIdle

NextOpen ==
    \/ \E path \in OpenPaths, outcome \in LoaderOutcomes : File_open(path, outcome)
    \/ \E path \in OpenPaths, outcome \in LoaderOutcomes : load_file(path, outcome)

SpecOpen == InitOpen /\ [][NextOpen]_vars

\* The paths whose extension is exactly "obj", and exactly "gltf" or "glb".
PathsWithObjExtension ==
    {<<"model", Dot, "obj">>,
     <<"model", Dot, "glb", Separator, "scene", Dot, "obj">>}
PathsWithGltfExtension ==
    {<<"model", Dot, "gltf">>,
     <<"model", Dot, "glb">>,
     <<"model", Dot, "tar", Dot, "gltf">>}
CallsMade ==
    {c \in {Unwrap(opened).file_open, Unwrap(opened).load_file} : c # None}

\* C18: a path with extension "obj" goes to the OBJ loader, one with "gltf"
\* or "glb" to the glTF loader, every other path fails with
\* UnsupportedFileExtension carrying the path and calls no loader; what the
\* loader does (a value, an error) is what the caller gets; File::open and
\* load_file select the same loader for the same path.
C18_OpenDispatchesOnTheExtension ==
    /\ \A c \in CallsMade :
        LET call == Unwrap(c)
        IN  /\ call.path \in PathsWithObjExtension => call.loader = "obj"
            /\ call.path \in PathsWithGltfExtension => call.loader = "gltf"
            /\ call.path \notin PathsWithObjExtension \cup PathsWithGltfExtension =>
                 /\ call.loader = "none"
                 /\ call.outcome = "not called"
                 /\ call.ret = Err(Variant("UnsupportedFileExtension", call.path))
            /\ call.outcome = "ok" => IsOk(call.ret)
            /\ call.outcome = "error" =>
                 /\ call.ret.tag = "Err"
                 /\ call.ret.value.variant =
                        (IF call.loader = "obj" THEN "ObjError" ELSE "GltfError")
            /\ call.outcome = "panic" => call.ret.tag = "Panic"
    /\ \A c, d \in CallsMade :
        Unwrap(c).path = Unwrap(d).path => Unwrap(c).loader = Unwrap(d).loader

\* File::open refused a path whose extension is not valid UTF-8 without
\* calling a loader, and load_file handed back the glTF loader's error for
\* a ".glb" path.
C18_Witness ==
    /\ Unwrap(opened).file_open =
          Some(OpenCall(<<"model", Dot, "obj", InvalidByte>>, "none", "not called",
                 Err(Variant("UnsupportedFileExtension", <<"model", Dot, "obj", InvalidByte>>))))
    /\ Unwrap(opened).load_file # None
    /\ Unwrap(Unwrap(opened).load_file).path = <<"model", Dot, "glb">>
    /\ Unwrap(Unwrap(opened).load_file).loader = "gltf"
    /\ Unwrap(Unwrap(opened).load_file).ret.tag = "Err"
    /\ Unwrap(Unwrap(opened).load_file).ret.value.variant = "GltfError"

----------------------------------------------------------------------------
(*        Threads that share one open file: Arc<Mutex<File>>               *)
----------------------------------------------------------------------------
MaxThreads == 2     \* threads holding a clone of the Arc<Mutex<File>>
Threads == 1..MaxThreads

\* What the threads ask of the file.
Query(op, scene, camera, display) ==
    [op |-> op, scene |-> scene, camera |-> camera, display |-> display]
ThreadQueries ==
    {Query("query_geometry", None, "", {}),
     Query("query_geometry", Some("A"), "", {}),
     Query("query_lights", None, "", {}),
     Query("query_lights", Some("B"), "", {}),
     Query("query_camera_first", Some("B"), "", {}),
     Query("query_camera_named", Some("B"), "main", {})}

Thread(pc, query, index) == [pc |-> pc, query |-> query, index |-> index]

\* (a variant in which lock() never waits)
mutex_free_always(m) == TRUE
\* Mutex::lock returns only when no other guard is alive.
mutex_free(m) == m = None

\* The cache key of a query that resolved to scene_index, the cached value
\* under it, and the value the query computes when the lookup misses.
KindOf(q) ==
    IF q.op = "query_geometry" THEN "geometry"
    ELSE IF q.op = "query_lights" THEN "lights"
    ELSE IF q.op = "query_camera_first" THEN "first_camera"
    ELSE "named_camera"
KeyOf(q, scene_index) ==
    IF q.op = "query_camera_named" THEN <<scene_index, q.camera>> ELSE scene_index
Cached(q, scene_index) ==
    IF q.op = "query_geometry" THEN cache_get(scene_shader_geometry, scene_index)
    ELSE IF q.op = "query_lights" THEN cache_get(scene_lights, scene_index)
    ELSE IF q.op = "query_camera_first" THEN scene_first_camera
    ELSE cache_get(scene_cameras, KeyOf(q, scene_index))
Computed(q, scene_index) ==
    LET pairs == SceneNodes(scenes[scene_index])
    IN  IF q.op = "query_geometry"
        THEN LET converted == ConvertGeometry(q.display, GeometryPieces(pairs, 1))
             IN  IF ~IsOk(converted) THEN converted
                 ELSE IF is_empty(converted.value) THEN Err("NoGeometryFound")
                 ELSE converted
        ELSE IF q.op = "query_lights"
        THEN LET lights == CollectLights(pairs, 1)
             IN  IF is_empty(lights) THEN Err("NoLightsFound") ELSE Ok(lights)
        ELSE IF q.op = "query_camera_first"
        THEN LET first == FindFirstCamera(pairs, 1)
             IN  IF first = None THEN Err("NoCameraFound") ELSE Ok(Unwrap(first))
        ELSE LET found_camera == FindNamedCamera(pairs, q.camera, 1)
             IN  IF found_camera = None THEN Err("UnknownCamera")
                 ELSE Ok(Unwrap(found_camera))

\* A thread decides on a query.
Ask(t, q) ==
    /\ threads[t].pc = "idle"
    /\ threads' = [threads EXCEPT ![t] = Thread("waiting", Some(q), None)]
    /\ UNCHANGED <<mutex, returned, measured, opened, imageVars>>
    /\ UNCHANGED <<backendVars, layoutVars>>

\* file.lock(): the thread gets the guard, the only way to the &mut File
\* that the queries take.
Lock(t) ==
    /\ threads[t].pc = "waiting"
    /\ mutex_free(mutex)
    /\ mutex' = Some(t)
    /\ threads' = [threads EXCEPT ![t].pc = "locked"]
    /\ UNCHANGED <<returned, measured, opened, imageVars>>
    /\ UNCHANGED <<backendVars, layoutVars>>

\* The first half of a query (gltf.rs:86-90, 122-126, 157-164, 201-205):
\* find_scene, then the lookup in the cache of the query.
Lookup(t) ==
    /\ threads[t].pc = "locked"
    /\ LET q == Unwrap(threads[t].query)
           found == find_scene(scenes, default_scene, q.scene)
       IN  IF ~IsOk(found)
           THEN /\ threads' = [threads EXCEPT ![t].pc = "answered"]
                /\ UNCHANGED returned
           ELSE LET cached == Cached(q, found.value)
                IN  IF IsSome(cached)
                    THEN /\ threads' = [threads EXCEPT ![t].pc = "answered"]
                         /\ returned' = returned \cup
                               {<<KindOf(q), KeyOf(q, found.value), Unwrap(cached).ref>>}
                    ELSE /\ threads' = [threads EXCEPT ![t] =
                                           Thread("computing", Some(q), Some(found.value))]
                         /\ UNCHANGED returned
    /\ UNCHANGED <<mutex, measured, opened, imageVars>>
    /\ UNCHANGED <<backendVars, layoutVars>>

\* The second half of a query whose lookup missed: the traversal, the
\* emptiness test, the Arc and its insertion (gltf.rs:92-113, 128-151,
\* 166-191, 207-226).
Complete(t) ==
    /\ threads[t].pc = "computing"
    /\ LET q == Unwrap(threads[t].query)
           scene_index == Unwrap(threads[t].index)
           kind == KindOf(q)
           key == KeyOf(q, scene_index)
           computed == Computed(q, scene_index)
           arc == Arc(ArcRef(kind, scene_index, q.camera, Allocated(kind, key) + 1),
                      computed.value)
       IN  IF ~IsOk(computed)
           THEN /\ UNCHANGED <<scene_shader_geometry, scene_lights, scene_first_camera,
                               scene_cameras, allocs, returned>>
           ELSE /\ Allocated(kind, key) < MaxAllocs
                /\ allocs' = CountAlloc(kind, key)
                /\ scene_shader_geometry' =
                      IF kind = "geometry"
                      THEN cache_insert(scene_shader_geometry, key, arc)
                      ELSE scene_shader_geometry
                /\ scene_lights' =
                      IF kind = "lights" THEN cache_insert(scene_lights, key, arc)
                      ELSE scene_lights
                /\ scene_first_camera' =
                      IF kind = "first_camera" THEN Some(arc) ELSE scene_first_camera
                /\ scene_cameras' =
                      IF kind = "named_camera" THEN cache_insert(scene_cameras, key, arc)
                      ELSE scene_cameras
                /\ returned' = returned \cup {<<kind, key, arc.ref>>}
    /\ threads' = [threads EXCEPT ![t].pc = "answered"]
    /\ UNCHANGED <<scenes, default_scene, result>>
    /\ UNCHANGED <<mutex, measured, opened, imageVars>>
    /\ UNCHANGED layoutVars

\* The guard is dropped when the call has returned.
Unlock(t) ==
    /\ threads[t].pc = "answered"
    /\ mutex' = None
    /\ threads' = [threads EXCEPT ![t] = Thread("idle", None, None)]
    /\ UNCHANGED <<returned, measured, opened, imageVars>>
    /\ UNCHANGED <<backendVars, layoutVars>>

\* One file with the scenes "A" and "B", opened once and shared.
InitThreads ==
    /\ scenes = <<SceneA, SceneB>>
    /\ default_scene = 1
    /\ scene_shader_geometry = [i \in SceneIndexes |-> None]
    /\ scene_lights = [i \in SceneIndexes |-> None]
    /\ scene_first_camera = None
    /\ scene_cameras = [k \in CameraKeys |-> None]
    /\ allocs = [geometry |-> [i \in SceneIndexes |-> 0],
                 lights |-> [i \in SceneIndexes |-> 0],
                 first_camera |-> [i \in SceneIndexes |-> 0],
                 named_camera |-> [k \in CameraKeys |-> 0]]
    /\ result = Call("open", None, None, {}, None, RetErr(""), FALSE)
    /\ mutex = None
    /\ threads = [t \in Threads |-> Thread("idle", None, None)]
    /\ returned = {}
    /\ measured = None
    /\ opened = None
    /\ ImageIdle
    /\ LayoutIdle

NextThreads ==
    \/ \E t \in Threads, q \in ThreadQueries : Ask(t, q)
    \/ \E t \in Threads : Lock(t)
    \/ \E t \in Threads : Lookup(t)
    \/ \E t \in Threads : Complete(t)
    \/ \E t \in Threads : Unlock(t)

SpecThreads == InitThreads /\ [][NextThreads]_vars

\* The threads that are inside a query.
InQuery == {t \in Threads : threads[t].pc \in {"locked", "computing", "answered"}}

\* C17: in every interleaving of the threads, each cache key has its value
\* built and inserted at most once, a thread is inside a query (between its
\* lookup and its insertion) only alone and as the holder of the mutex, and
\* all values handed out for one key are the same shared object.
C17_ThreadsShareOneValuePerKey ==
    /\ \A t \in InQuery : mutex = Some(t)
    /\ \A i \in SceneIndexes :
          /\ allocs.geometry[i] <= 1
          /\ allocs.lights[i] <= 1
          /\ allocs.first_camera[i] <= 1
    /\ \A k \in CameraKeys : allocs.named_camera[k] <= 1
    /\ \A x, y \in returned : (x[1] = y[1] /\ x[2] = y[2]) => x[3] = y[3]

\* Two threads asked for the geometry of the same scene, one by name and
\* one through the default selector; the value was built once, both calls
\* have returned it, and one thread is at its lookup while the other waits
\* for the mutex.
C17_Witness ==
    /\ allocs.geometry[1] = 1
    /\ <<"geometry", 1, ArcRef("geometry", 1, "", 1)>> \in returned
    /\ \E k \in CameraKeys : scene_cameras[k] # None
    /\ scene_first_camera # None
    /\ \E t, u \in Threads :
          /\ threads[t].pc = "locked"
          /\ threads[u].pc = "waiting"
          /\ threads[t].query = Some(Query("query_geometry", None, "", {}))
          /\ threads[u].query = Some(Query("query_geometry", Some("A"), "", {}))

----------------------------------------------------------------------------
\* C21: while a grid of n cells is iterated, after every next() the
\* iterator has current + (remaining cells) = n, the remaining cells are the
\* suffix of the original child list that has not been yielded, in order,
\* the yielded nodes are the prefix before it, and cell_width, cell_height,
\* rows and cols are those computed at construction.
C21_IteratorKeepsTheSuffix ==
    (Iterated /\ RootIsGrid) =>
        LET grid == Unwrap(layout)
            n == Len(grid.cells)
            it == Unwrap(iter)
        IN  /\ Len(yielded) = it.current
            /\ \A k \in 1..Len(yielded) : yielded[k].node = grid.cells[k]
            /\ it.node = None => (it.current = n /\ phase = "done")
            /\ it.node # None =>
                 LET node == Unwrap(it.node)
                 IN  /\ node.type = "Grid"
                     /\ it.current + Len(node.cells) = n
                     /\ node.cells = SubSeq(grid.cells, it.current + 1, n)
                     /\ node.cell_width = grid.cell_width
                     /\ node.cell_height = grid.cell_height
                     /\ node.rows = grid.rows
                     /\ node.cols = grid.cols

\* Two of three cells of a two-column grid have been yielded: the iterator
\* holds the last cell in a grid that still has two rows and the cell size
\* of the whole list, larger than the remaining cell.
C21_Witness ==
    /\ phase = "iterating"
    /\ RootIsGrid
    /\ Len(Unwrap(layout).cells) = 3
    /\ Unwrap(iter).current = 2
    /\ Unwrap(iter).node # None
    /\ Len(Unwrap(Unwrap(iter).node).cells) = 1
    /\ Unwrap(Unwrap(iter).node).rows = 2
    /\ Unwrap(Unwrap(iter).node).cols = 2
    /\ LayoutNode_size(Unwrap(Unwrap(iter).node).cells[1]).width
          < Unwrap(Unwrap(iter).node).cell_width

----------------------------------------------------------------------------
(*        The preview's image buffer: spritec-preview/image_buffer.rs      *)
----------------------------------------------------------------------------
\* The number of components in an RGBA value (image_buffer.rs:5).
RGBA_COMPONENTS == 4

\* usize arithmetic, in a word of WordBits bits: products and sums wrap.
UsizeModulus == 2 ^ WordBits
MulUsize(a, b) == (a * b) % UsizeModulus
AddUsize(a, b) == (a + b) % UsizeModulus

\* The widths and heights and the scales the preview asks for: small ones,
\* and one whose buffer size leaves the word.
ImageDims == {1, 2, 2 ^ (WordBits - 2)}
ImageScales == {1, 2}
MaxSets == 2        \* calls of set() on one buffer

\* Rgba<f32>: a component is the fraction num / den.
Fraction(num, den) == [num |-> num, den |-> den]
Rgba(r, g, b, a) == [r |-> r, g |-> g, b |-> b, a |-> a]
Items ==
    {Rgba(Fraction(1, 1), Fraction(0, 1), Fraction(1, 2), Fraction(1, 1)),
     Rgba(Fraction(0, 1), Fraction(1, 1), Fraction(1, 1), Fraction(1, 2))}

\* (255.0 * c) as u8: the product truncated, saturating at the ends of u8.
ToByte(c) ==
    IF c.num <= 0 THEN 0
    ELSE IF c.num >= c.den THEN 255
    ELSE (255 * c.num) \div c.den
\* The four bytes stored for an item (image_buffer.rs:76-79).
ItemBytes(item) == <<ToByte(item.r), ToByte(item.g), ToByte(item.b), ToByte(item.a)>>
\* byte as f32 / 255.0 (image_buffer.rs:89-92)
FromBytes(bytes) ==
    Rgba(Fraction(bytes[1], 255), Fraction(bytes[2], 255),
         Fraction(bytes[3], 255), Fraction(bytes[4], 255))

ImageBuffer(data, width, height, scale) ==
    [data |-> data, width |-> width, height |-> height, scale |-> scale]

\* RGBA_COMPONENTS * width * scale * height * scale, as the code computes it
\* (image_buffer.rs:19, 55), and whether the product leaves the word.
BufferSize(width, height, scale) ==
    MulUsize(MulUsize(MulUsize(MulUsize(RGBA_COMPONENTS, width), scale), height), scale)
SizeOverflows(width, height, scale) ==
    RGBA_COMPONENTS * width * scale * height * scale >= UsizeModulus

\* Vec::resize_with(size, Default::default): truncated, or extended by zeros.
resize_with(data, size) ==
    IF size <= Len(data) THEN SubSeq(data, 1, size)
    ELSE data \o [k \in 1..(size - Len(data)) |-> 0]

\* What the model records next to the buffer: the bytes that set() has
\* drawn at each pixel since the buffer was last resized or cleared, how
\* many set() calls were made, and the last call.
LastCall(op, x, y, indexes, undefined, ret) ==
    [op |-> op, x |-> x, y |-> y, indexes |-> indexes, undefined |-> undefined, ret |-> ret]
NoRet == FromBytes(<<0, 0, 0, 0>>)
Drawn(stored, sets, last) == [stored |-> stored, sets |-> sets, last |-> last]
Resized == Drawn({}, drawn.sets, LastCall("resize", 0, 0, {}, FALSE, NoRet))
\* The multiplication panicked ("attempt to multiply with overflow").
PanickedCall ==
    Drawn({}, drawn.sets, LastCall("panic", 0, 0, {}, FALSE, NoRet))
Usable == drawn.last.op # "panic"

\* ImageBuffer::new (image_buffer.rs:17-24)
ImageBuffer_new(width, height, scale) ==
    /\ image = None
    /\ Usable
    /\ \E overflow_checks \in BOOLEAN :
         IF SizeOverflows(width, height, scale) /\ overflow_checks
         THEN /\ image' = None
              /\ drawn' = PanickedCall
         ELSE /\ image' = Some(ImageBuffer(resize_with(<<>>, BufferSize(width, height, scale)),
                                           width, height, scale))
              /\ drawn' = Resized
    /\ UNCHANGED <<measured, opened, mutex, threads, returned>>
    /\ UNCHANGED <<backendVars, layoutVars>>

\* set_scale, set_width, set_height followed by resize_buffer
\* (image_buffer.rs:33-57): the field is assigned, then the data resized.
\* With overflow checks (a debug build) a size that leaves the word panics;
\* without them it wraps.
Resize(width, height, scale) ==
    /\ image # None
    /\ Usable
    /\ LET data == Unwrap(image).data
       IN  \E overflow_checks \in BOOLEAN :
           IF SizeOverflows(width, height, scale) /\ overflow_checks
           THEN /\ image' = Some(ImageBuffer(data, width, height, scale))
                /\ drawn' = PanickedCall
           ELSE /\ image' = Some(ImageBuffer(resize_with(data, BufferSize(width, height, scale)),
                                             width, height, scale))
                /\ drawn' = Resized
    /\ UNCHANGED <<measured, opened, mutex, threads, returned>>
    /\ UNCHANGED <<backendVars, layoutVars>>

set_scale(scale) ==
    image # None /\ Resize(Unwrap(image).width, Unwrap(image).height, scale)
set_width(width) ==
    image # None /\ Resize(width, Unwrap(image).height, Unwrap(image).scale)
set_height(height) ==
    image # None /\ Resize(Unwrap(image).width, height, Unwrap(image).scale)

\* The coordinates the callers draw at: the corners of the image, which
\* for the small images are all its pixels.
Coords(n) == {0, n - 1}
CornersX == IF image = None THEN {} ELSE Coords(Unwrap(image).width)
CornersY == IF image = None THEN {} ELSE Coords(Unwrap(image).height)
Components == 0..(RGBA_COMPONENTS - 1)

\* The index of sub-pixel (i, j) of pixel (x, y) in set (image_buffer.rs:72-75).
SetIndex(img, x, y, i, j) ==
    LET col == AddUsize(MulUsize(x, img.scale), i)
        row == AddUsize(MulUsize(y, img.scale), j)
    IN  AddUsize(MulUsize(MulUsize(MulUsize(row, RGBA_COMPONENTS), img.width), img.scale),
                 MulUsize(col, RGBA_COMPONENTS))
\* The index of pixel (x, y) in get (image_buffer.rs:87).
GetIndex(img, x, y) ==
    AddUsize(MulUsize(MulUsize(MulUsize(y, img.scale), RGBA_COMPONENTS), img.width),
             MulUsize(MulUsize(x, img.scale), RGBA_COMPONENTS))

\* What get_unchecked reads outside the buffer: undefined behaviour.
UndefinedBytes == {<<0, 0, 0, 0>>, <<255, 255, 255, 255>>}

\* Target::set (image_buffer.rs:69-82), called with x < width, y < height.
\* A write outside the buffer is undefined behaviour: the writes inside it
\* may or may not be seen afterwards.
ImageBuffer_set(x, y, item) ==
    /\ image # None
    /\ Usable
    /\ drawn.sets < MaxSets
    /\ LET img == Unwrap(image)
           bytes == ItemBytes(item)
           writes == {<<AddUsize(SetIndex(img, x, y, i, j), k), bytes[k + 1]>> :
                        i \in 0..(img.scale - 1), j \in 0..(img.scale - 1), k \in Components}
           indexes == {w[1] : w \in writes}
           undefined == \E idx \in indexes : idx >= Len(img.data)
           written == [n \in 1..Len(img.data) |->
                         IF n - 1 \in indexes
                         THEN (CHOOSE w \in writes : w[1] = n - 1)[2]
                         ELSE img.data[n]]
       IN  /\ x \in Coords(img.width)
           /\ y \in Coords(img.height)
           /\ \E data \in (IF undefined THEN {img.data, written} ELSE {written}) :
                 image' = Some(ImageBuffer(data, img.width, img.height, img.scale))
           /\ drawn' = Drawn({e \in drawn.stored : e[1] # <<x, y>>} \cup {<<(<<x, y>>), bytes>>},
                        drawn.sets + 1,
                        LastCall("set", x, y, indexes, undefined, NoRet))
    /\ UNCHANGED <<measured, opened, mutex, threads, returned>>
    /\ UNCHANGED <<backendVars, layoutVars>>

\* Target::get (image_buffer.rs:85-94), called with x < width, y < height.
ImageBuffer_get(x, y) ==
    /\ image # None
    /\ Usable
    /\ LET img == Unwrap(image)
           index == GetIndex(img, x, y)
           indexes == {AddUsize(index, k) : k \in Components}
           undefined == \E idx \in indexes : idx >= Len(img.data)
       IN  /\ x \in Coords(img.width)
           /\ y \in Coords(img.height)
           /\ \E bytes \in (IF undefined THEN UndefinedBytes
                            ELSE {<<img.data[index + 1], img.data[index + 2],
                                    img.data[index + 3], img.data[index + 4]>>}) :
                 drawn' = [drawn EXCEPT !.last =
                              LastCall("get", x, y, indexes, undefined, FromBytes(bytes))]
    /\ UNCHANGED image
    /\ UNCHANGED <<measured, opened, mutex, threads, returned>>
    /\ UNCHANGED <<backendVars, layoutVars>>

\* Target::clear (image_buffer.rs:96-103): every chunk of four bytes.
ImageBuffer_clear(fill) ==
    /\ image # None
    /\ Usable
    /\ LET img == Unwrap(image)
           bytes == ItemBytes(fill)
       IN  /\ image' = Some(ImageBuffer(
                  [n \in 1..Len(img.data) |->
                      IF n > Len(img.data) - (Len(img.data) % RGBA_COMPONENTS)
                      THEN img.data[n]
                      ELSE bytes[((n - 1) % RGBA_COMPONENTS) + 1]],
                  img.width, img.height, img.scale))
           /\ drawn' = Drawn({}, drawn.sets, LastCall("clear", 0, 0, {}, FALSE, NoRet))
    /\ UNCHANGED <<measured, opened, mutex, threads, returned>>
    /\ UNCHANGED <<backendVars, layoutVars>>

\* Before the buffer is made.
InitImage ==
    /\ image = None
    /\ drawn = Drawn({}, 0, LastCall("none", 0, 0, {}, FALSE, NoRet))
    /\ measured = None
    /\ opened = None
    /\ mutex = None
    /\ threads = None
    /\ returned = None
    /\ BackendIdle
    /\ LayoutIdle

NextImage ==
    \/ \E width \in ImageDims, height \in ImageDims, scale \in ImageScales :
          ImageBuffer_new(width, height, scale)
    \/ \E scale \in ImageScales : set_scale(scale)
    \/ \E width \in ImageDims : set_width(width)
    \/ \E height \in ImageDims : set_height(height)
    \/ \E x \in CornersX, y \in CornersY, item \in Items : ImageBuffer_set(x, y, item)
    \/ \E x \in CornersX, y \in CornersY : ImageBuffer_get(x, y)
    \/ \E fill \in Items : ImageBuffer_clear(fill)

SpecImage == InitImage /\ [][NextImage]_vars

----------------------------------------------------------------------------
\* C22: after new and after any sequence of set_scale, set_width and
\* set_height, the length of the data buffer is 4 * width * scale * height *
\* scale for the current fields, and every byte index that set([x, y], ..)
\* writes for x < width and y < height is smaller than that length.
C22_BufferHoldsEveryWrittenIndex ==
    (image # None /\ Usable) =>
        LET img == Unwrap(image)
        IN  /\ Len(img.data) = 4 * img.width * img.scale * img.height * img.scale
            /\ drawn.last.op = "set" =>
                  \A index \in drawn.last.indexes : index < Len(img.data)

\* C23: for an image whose buffer size fits the word, the byte index that
\* get([x, y]) reads is the one set([x, y], ..) writes for the top-left
\* sub-pixel, and a get of a pixel that set has drawn returns the bytes
\* stored for the item last drawn there, whatever was drawn elsewhere.
C23_GetReadsWhatSetWrote ==
    (image # None /\ drawn.last.op = "get") =>
        LET img == Unwrap(image)
            x == drawn.last.x
            y == drawn.last.y
        IN  4 * img.width * img.scale * img.height * img.scale < UsizeModulus =>
              /\ drawn.last.indexes =
                    {(y * img.scale) * 4 * img.width * img.scale + (x * img.scale) * 4 + k :
                        k \in 0..3}
              /\ \A e \in drawn.stored :
                    e[1] = <<x, y>> => drawn.last.ret = FromBytes(e[2])

====
